---------------------------- MODULE Spec2Model ----------------------------
(***************************************************************************)
(* Model of aeolis/shear.py: class WindShear, the wind shear perturbation  *)
(* solver on a rotating computational grid.                                *)
(*                                                                         *)
(* Arithmetic.  The program computes with floating point numbers; the      *)
(* model computes exactly on integers.  Lengths and coordinates are in     *)
(* half units (the value 2 is the length 1.0), so that the centre of an    *)
(* input grid with unit spacing is an integer.  Wind directions are the    *)
(* multiples of 90 degrees, for which sine and cosine are -1, 0 or 1.      *)
(* The sigmoid is computed in fixed point with Scale steps per unit.       *)
(*                                                                         *)
(* Names.  The file binds no name np, interpolate_grid or get_exact_grid   *)
(* itself; the model reads np as numpy, and the two bare calls (lines 151  *)
(* and 224) as calls of the static methods interpolate and get_exact_grid  *)
(* of the class.  Everything else follows the statements as Python         *)
(* evaluates them.                                                         *)
(***************************************************************************)
EXTENDS Integers, Sequences, FiniteSets, TLC

VARIABLES
  self,     \* the WindShear object
  err,      \* the exception the last call ended with, "none" if it returned
  last,     \* the last call made and its arguments
  ret,      \* what the last call returned
  ctor,     \* the arguments the object was constructed with
  ncalls    \* invocations made so far: 0, 1 or 2 for two and more

vars == <<self, err, last, ret, ctor, ncalls>>

-----------------------------------------------------------------------------
(* Bounds of the model *)

\* input grids have 2..MaxN rows and 2..MaxN columns
MaxN == 3
\* free-stream speeds 0..MaxSpeed
MaxSpeed == 1
\* wind directions -90, 0, 90, ..., 90 * MaxTurn degrees
MaxTurn == 3
\* buffer widths -2..MaxBuffer half units
MaxBuffer == 2
\* explicit buffer relaxations 1..MaxRelax half units
MaxRelax == 2
\* distances 0..MaxDist half units handed to get_sigmoid
MaxDist == 4
\* arrays handed to get_borders have 2..MaxBorderN rows and columns
MaxBorderN == 5
\* coordinates -MaxCoord..MaxCoord handed to rotate and get_exact_grid
MaxCoord == 3
\* spacings 1..MaxStep handed to get_exact_grid
MaxStep == 3
\* point coordinates -MaxPoint..MaxPoint handed to rotate
MaxPoint == 1

Speeds == 0..MaxSpeed
Directions == {90 * k : k \in -1..MaxTurn}
BufferWidths == -2..MaxBuffer

-----------------------------------------------------------------------------
(* Values held in arrays *)

\* a number
Num(v) == <<"num", v, 0>>
\* not-a-number, as scipy's griddata returns outside the convex hull
NaN == <<"nan", 0, 0>>
\* the value of the cubic interpolant at a point that is no data point
Cubic(x, y) == <<"cubic", x, y>>
\* the value of the spectral formula (FFT and Bessel kernel) for speed u0
Spectral(comp, u0) == <<comp, u0, 0>>
\* a number in fixed point: v / Scale
Fix(v) == <<"fix", v, 0>>
\* a dict key that is not set
Absent == <<>>

Scale == 10 ^ 4

\* shape of a 2D array held as a sequence of rows
Shape(a) == <<Len(a), IF Len(a) = 0 THEN 0 ELSE Len(a[1])>>
Cells(a) == {rc \in (1..Len(a)) \X (1..Shape(a)[2]) : TRUE}
At(a, rc) == a[rc[1]][rc[2]]


-----------------------------------------------------------------------------
(* numpy helpers *)

\* np.floor(a / b) for b > 0
FloorDiv(a, b) == a \div b

\* np.ceil(a / b) for b > 0
CeilDiv(a, b) == -((-a) \div b)

\* the least integer that is at least np.sqrt(n): an outward rounding of a
\* bound x0 -/+ D/2 to a multiple of the spacing is the same for D and for
\* D rounded up to an integer, the other terms being integers
CeilSqrt(n) == CHOOSE k \in 0..n : k * k >= n /\ (k = 0 \/ (k - 1) * (k - 1) < n)

\* np.arange(start, stop, step): the stop value is excluded
Arange(start, stop, step) ==
  LET n == IF stop > start THEN CeilDiv(stop - start, step) ELSE 0
  IN [i \in 1..n |-> start + (i - 1) * step]

\* np.meshgrid(x, y): two arrays of shape (len(y), len(x))
Meshgrid(x, y) ==
  << [r \in 1..Len(y) |-> x],
     [r \in 1..Len(y) |-> [c \in 1..Len(x) |-> y[r]]] >>

\* the elements of an array, row by row
RECURSIVE Flatten(_)
Flatten(a) == IF a = <<>> THEN <<>> ELSE Head(a) \o Flatten(Tail(a))

RECURSIVE SeqSum(_)
SeqSum(q) == IF q = <<>> THEN 0 ELSE Head(q) + SeqSum(Tail(q))

SeqMax(q) == CHOOSE v \in {q[i] : i \in 1..Len(q)} : \A i \in 1..Len(q) : q[i] <= v
SeqMin(q) == CHOOSE v \in {q[i] : i \in 1..Len(q)} : \A i \in 1..Len(q) : q[i] >= v

\* np.mean of an array whose mean is an integer
Mean(a) == SeqSum(Flatten(a)) \div Len(Flatten(a))

\* np.zeros(shape)
Zeros(shape) == [r \in 1..shape[1] |-> [c \in 1..shape[2] |-> Num(0)]]

\* np.isnan
IsNan(v) == v = NaN

\* cos and sin of alpha / 180 * pi for alpha a multiple of 90, by the angle
\* addition formulas from cos 0 = 1, sin 0 = 0
RECURSIVE CosSin(_)
CosSin(alpha) ==
  IF alpha = 0 THEN <<1, 0>>
  ELSE IF alpha > 0
       THEN LET p == CosSin(alpha - 90) IN <<-p[2], p[1]>>
       ELSE LET p == CosSin(alpha + 90) IN <<p[2], -p[1]>>

-----------------------------------------------------------------------------
(* Static methods *)

\* get_exact_grid with the stop value kept (np.arange up to and including
\* the rounded upper bound)
get_exact_grid_inclusive(xmin, xmax, ymin, ymax, dx, dy) ==
  LET x == Arange(FloorDiv(xmin, dx) * dx, CeilDiv(xmax, dx) * dx + dx, dx)
      y == Arange(FloorDiv(ymin, dy) * dy, CeilDiv(ymax, dy) * dy + dy, dy)
  IN Meshgrid(x, y)

\* get_exact_grid(xmin, xmax, ymin, ymax, dx, dy)
get_exact_grid(xmin, xmax, ymin, ymax, dx, dy) ==
  LET x == Arange(FloorDiv(xmin, dx) * dx, CeilDiv(xmax, dx) * dx, dx)
      y == Arange(FloorDiv(ymin, dy) * dy, CeilDiv(ymax, dy) * dy, dy)
  IN Meshgrid(x, y)

\* get_borders(x): the concatenation of x[0,:], x[1:-1,-1], x[-1,::-1],
\* x[-1:1:-1,0] and x[0,:1].  With 0-based rows 0..ny-1 the slice -1:1:-1
\* runs over the rows ny-1, ny-2, ..., 2.
get_borders(x) ==
  LET ny == Len(x)
      nx == Len(x[1])
      top    == x[1]
      right  == [i \in 1..(ny - 2) |-> x[i + 1][nx]]
      bottom == [c \in 1..nx |-> x[ny][nx + 1 - c]]
      left   == [i \in 1..(ny - 2) |-> x[ny + 1 - i][1]]
      close  == <<x[1][1]>>
  IN top \o right \o bottom \o left \o close

\* rotate with the angle clamped to the range 0..360 first
rotate_clamped(x, y, alpha, origin) ==
  LET al == IF alpha > 360 THEN 360 ELSE IF alpha < 0 THEN 0 ELSE alpha
      cs == CosSin(al)
      c  == cs[1]
      s  == cs[2]
      xr(rc) == At(x, rc) - origin[1]
      yr(rc) == At(y, rc) - origin[2]
  IN << [r \in 1..Len(x) |-> [k \in 1..Len(x[r]) |->
           xr(<<r, k>>) * c + yr(<<r, k>>) * s + origin[1]]],
        [r \in 1..Len(y) |-> [k \in 1..Len(y[r]) |->
           (-xr(<<r, k>>)) * s + yr(<<r, k>>) * c + origin[2]]] >>

\* rotate(x, y, alpha, origin): the points as row vectors (xr, yr) times
\* R = [[cos a, -sin a], [sin a, cos a]]
rotate(x, y, alpha, origin) ==
  LET cs == CosSin(alpha)
      c  == cs[1]
      s  == cs[2]
      xr(rc) == At(x, rc) - origin[1]
      yr(rc) == At(y, rc) - origin[2]
  IN << [r \in 1..Len(x) |-> [k \in 1..Len(x[r]) |->
           xr(<<r, k>>) * c + yr(<<r, k>>) * s + origin[1]]],
        [r \in 1..Len(y) |-> [k \in 1..Len(y[r]) |->
           (-xr(<<r, k>>)) * s + yr(<<r, k>>) * c + origin[2]]] >>

\* the product of an integer and an array value
Times(k, v) ==
  IF k = 0 THEN Num(0)
  ELSE IF k = 1 THEN v
  ELSE IF v[1] = "num" THEN Num(k * v[2])
  ELSE IF v[1] = "nan" THEN NaN
  ELSE <<"times", k, v>>

\* the sum of two array values, one of which is zero for a quarter turn
Plus(v, w) ==
  IF v = Num(0) THEN w
  ELSE IF w = Num(0) THEN v
  ELSE IF v[1] = "num" /\ w[1] = "num" THEN Num(v[2] + w[2])
  ELSE IF v[1] = "nan" \/ w[1] = "nan" THEN NaN
  ELSE <<"plus", v, w>>

\* rotate(x, y, alpha) about the default origin (0, 0), applied to the two
\* components of a vector field
rotate_field(x, y, alpha) ==
  LET cs == CosSin(alpha)
      c  == cs[1]
      s  == cs[2]
  IN << [r \in 1..Len(x) |-> [k \in 1..Len(x[r]) |->
           Plus(Times(c, x[r][k]), Times(s, y[r][k]))]],
        [r \in 1..Len(y) |-> [k \in 1..Len(y[r]) |->
           Plus(Times(-s, x[r][k]), Times(c, y[r][k]))]] >>

\* interpolate(x, y, z, xi, yi): scipy.interpolate.griddata, method 'cubic'.
\* A target outside the convex hull of the data points gets not-a-number, a
\* target that is a data point gets its value, any other target the value of
\* the cubic interpolant there.  The data points of the model form an
\* axis-parallel lattice, whose convex hull is its bounding box.
interpolate(x, y, z, xi, yi) ==
  LET fx == Flatten(x)
      fy == Flatten(y)
      fz == Flatten(z)
      n  == Len(fx)
      xlo == SeqMin(fx)
      xhi == SeqMax(fx)
      ylo == SeqMin(fy)
      yhi == SeqMax(fy)
      at(px, py) ==
        IF n = 0 \/ px < xlo \/ px > xhi \/ py < ylo \/ py > yhi
        THEN NaN
        ELSE LET hit == {i \in 1..n : fx[i] = px /\ fy[i] = py}
             IN IF hit # {} THEN fz[CHOOSE i \in hit : TRUE] ELSE Cubic(px, py)
  IN [r \in 1..Len(xi) |-> [c \in 1..Len(xi[r]) |-> at(xi[r][c], yi[r][c])]]

-----------------------------------------------------------------------------
(* The sigmoid, in fixed point *)

\* distances are handed to get_sigmoid in steps of 1 / Res of a half unit
Res == 10 ^ 2

\* np.exp(-1) in fixed point
ExpMinus1 == 3679

\* np.exp(-f / d) for 0 <= f < d, by its power series
RECURSIVE ExpSeries(_, _, _, _)
ExpSeries(f, d, k, term) ==
  IF term = 0 \/ k > 12 THEN 0
  ELSE LET next == (term * f) \div (d * k)
       IN term - next + (IF next = 0 THEN 0
                         ELSE LET nn == (next * f) \div (d * (k + 1))
                              IN ExpSeries(f, d, k + 2, nn))

RECURSIVE ExpPower(_)
ExpPower(q) ==
  IF q = 0 THEN Scale
  ELSE IF q > 12 THEN 0
  ELSE (ExpPower(q - 1) * ExpMinus1) \div Scale

\* np.exp(-n / d) for n >= 0 and d > 0, as a multiple of 1 / Scale
ExpNeg(n, d) ==
  (ExpPower(n \div d) * ExpSeries(n % d, d, 1, Scale)) \div Scale

\* get_sigmoid with the sign of the exponent lost:
\* 1. / (1. + np.exp((self.buffer_width - x) / self.buffer_relaxation))
get_sigmoid_flipped(s, x) ==
  LET br  == s.buffer_relaxation
      num == (x - s.buffer_width * Res) * br[2]
      den == br[1] * Res
      n   == IF den > 0 THEN num ELSE -num
      d   == IF den > 0 THEN den ELSE -den
  IN IF den = 0 THEN [err |-> "ZeroDivisionError", ret |-> Absent]
     ELSE IF n >= 0
          THEN [err |-> "none",
                ret |-> Fix((Scale * Scale) \div (Scale + ExpNeg(n, d)))]
          ELSE [err |-> "none",
                ret |-> Fix((Scale * ExpNeg(-n, d)) \div (Scale + ExpNeg(-n, d)))]

\* get_sigmoid(x) for a scalar distance x (in steps of 1 / Res):
\* 1. / (1. + np.exp(-(self.buffer_width - x) / self.buffer_relaxation)),
\* the relaxation being the fraction br[1] / br[2]
get_sigmoid(s, x) ==
  LET br  == s.buffer_relaxation
      num == (s.buffer_width * Res - x) * br[2]
      den == br[1] * Res
      n   == IF den > 0 THEN num ELSE -num
      d   == IF den > 0 THEN den ELSE -den
  IN IF den = 0 THEN [err |-> "ZeroDivisionError", ret |-> Absent]
     ELSE IF n >= 0
          THEN [err |-> "none",
                ret |-> Fix((Scale * Scale) \div (Scale + ExpNeg(n, d)))]
          ELSE [err |-> "none",
                ret |-> Fix((Scale * ExpNeg(-n, d)) \div (Scale + ExpNeg(-n, d)))]

-----------------------------------------------------------------------------
(* Construction *)

\* set_computational_grid(): the centre, the size and the reference grid.
\* get_exact_grid is handed x0 -/+ D/2 and the spacing, all doubled (which
\* doubles the nodes it returns), D / 2 being no integer for an odd D.
set_computational_grid(s) ==
  LET g  == s.igrid
      x0 == Mean(g.x)
      y0 == Mean(g.y)
      fx == Flatten(g.x)
      fy == Flatten(g.y)
      D  == CeilSqrt((SeqMax(fx) - SeqMin(fx)) * (SeqMax(fx) - SeqMin(fx))
                     + (SeqMax(fy) - SeqMin(fy)) * (SeqMax(fy) - SeqMin(fy)))
            + 2 * s.buffer_width
      gr == get_exact_grid(2 * x0 - D, 2 * x0 + D, 2 * y0 - D, 2 * y0 + D,
                           2 * s.cgrid.dx, 2 * s.cgrid.dy)
      half(a) == [r \in 1..Len(a) |-> [c \in 1..Len(a[r]) |-> a[r][c] \div 2]]
  IN [s EXCEPT !.D = D, !.x0 = x0, !.y0 = y0,
               !.cgrid.xi = half(gr[1]), !.cgrid.yi = half(gr[2])]

\* the divisor of the default relaxation, buffer_width / 4.
DefaultRelaxDivisor == 4

\* buffer_relaxation=None
None == <<0, 0>>

\* __init__(x, y, z, dx, dy, buffer_width, buffer_relaxation)
WindShear(x, y, z, dx, dy, buffer_width, buffer_relaxation) ==
  LET br == IF buffer_relaxation = None
            THEN <<buffer_width, DefaultRelaxDivisor>>
            ELSE buffer_relaxation
  IN set_computational_grid(
       [igrid |-> [x |-> x, y |-> y, z |-> z, dtaux |-> Absent, dtauy |-> Absent],
        cgrid |-> [dx |-> dx, dy |-> dy, xi |-> Absent, yi |-> Absent,
                   x |-> Absent, y |-> Absent, z |-> Absent,
                   dtaux |-> Absent, dtauy |-> Absent],
        buffer_width |-> buffer_width,
        buffer_relaxation |-> br,
        x0 |-> 0, y0 |-> 0, D |-> 0])

-----------------------------------------------------------------------------
(* Methods.  Each yields the object after the call and the exception the   *)
(* call ended with ("none": it returned).                                  *)

\* populate_computational_grid rotating the working coordinates of the
\* previous call, where there are any, instead of the reference grid
populate_accumulating(s, alpha) ==
  LET gc == s.cgrid
      gi == s.igrid
      xy == IF gc.x = Absent
            THEN rotate(gc.xi, gc.yi, alpha, <<s.x0, s.y0>>)
            ELSE rotate(gc.x, gc.y, alpha, <<s.x0, s.y0>>)
      z  == interpolate(gi.x, gi.y, gi.z, xy[1], xy[2])
  IN [self |-> [s EXCEPT !.cgrid.z = z, !.cgrid.x = xy[1], !.cgrid.y = xy[2]],
      err  |-> "NameError"]

\* populate_computational_grid(alpha).  Lines 150-153 rotate the reference
\* grid and store the interpolated elevation and the working coordinates;
\* lines 155-159 compute the borders and the mask of undefined cells.  Line
\* 160, argmin = lambda x: np.argmin(x), np.min(x), is the assignment of a
\* pair (a lambda, np.min(x)): Python evaluates np.min(x) there and then,
\* where no x is bound, and the method ends with a NameError.  Lines 161-167,
\* which would fill the undefined cells, are not reached.
populate_computational_grid(s, alpha) ==
  LET gc == s.cgrid
      gi == s.igrid
      xy == rotate(gc.xi, gc.yi, alpha, <<s.x0, s.y0>>)
      xc == xy[1]
      yc == xy[2]
      z  == interpolate(gi.x, gi.y, gi.z, xc, yc)
  IN [self |-> [s EXCEPT !.cgrid.z = z, !.cgrid.x = xc, !.cgrid.y = yc],
      err  |-> "NameError"]

\* compute_shear without the branch for u0 == 0.: the spectral formula is
\* evaluated, and 2 / u0**2 divides by zero
compute_shear_noguard(s, u0) ==
  LET g == s.cgrid
  IN IF g.z = Absent
     THEN [self |-> s, err |-> "KeyError"]
     ELSE LET anynan == u0 = 0 \/ \E rc \in Cells(g.z) : IsNan(At(g.z, rc))
              field(comp) == [r \in 1..Len(g.z) |-> [c \in 1..Len(g.z[r]) |->
                                IF anynan THEN NaN ELSE Spectral(comp, u0)]]
          IN [self |-> [s EXCEPT !.cgrid.dtaux = field("dtaux"),
                                 !.cgrid.dtauy = field("dtauy")],
              err  |-> "none"]

\* compute_shear(u0)
compute_shear(s, u0) ==
  LET g == s.cgrid
  IN IF g.z = Absent
     THEN [self |-> s, err |-> "KeyError"]
     ELSE IF u0 = 0
     THEN [self |-> [s EXCEPT !.cgrid.dtaux = Zeros(Shape(g.z)),
                              !.cgrid.dtauy = Zeros(Shape(g.z))],
           err  |-> "none"]
     ELSE LET anynan == \E rc \in Cells(g.z) : IsNan(At(g.z, rc))
              field(comp) == [r \in 1..Len(g.z) |-> [c \in 1..Len(g.z[r]) |->
                                IF anynan THEN NaN ELSE Spectral(comp, u0)]]
          IN [self |-> [s EXCEPT !.cgrid.dtaux = field("dtaux"),
                                 !.cgrid.dtauy = field("dtauy")],
              err  |-> "none"]

\* __call__(u0, udir)
call(s, u0, udir) ==
  LET p == populate_computational_grid(s, udir)
  IN IF p.err # "none" THEN p
     ELSE LET q == compute_shear(p.self, u0)
          IN IF q.err # "none" THEN q
             ELSE LET gc == q.self.cgrid
                      gi == q.self.igrid
                      dt == rotate_field(gc.dtaux, gc.dtauy, udir)
                  IN [self |-> [q.self EXCEPT
                                  !.cgrid.dtaux = dt[1],
                                  !.cgrid.dtauy = dt[2],
                                  !.igrid.dtaux = interpolate(gc.x, gc.y, dt[1], gi.x, gi.y),
                                  !.igrid.dtauy = interpolate(gc.x, gc.y, dt[2], gi.x, gi.y)],
                      err  |-> "none"]

\* get_shear()
get_shear(s) ==
  IF s.igrid.dtaux = Absent \/ s.igrid.dtauy = Absent
  THEN [err |-> "KeyError", ret |-> Absent]
  ELSE [err |-> "none", ret |-> <<s.igrid.dtaux, s.igrid.dtauy>>]

-----------------------------------------------------------------------------
(* Inputs *)

\* a rectilinear input grid with unit spacing (2 half units) and an elevation
\* that differs from cell to cell
InputX(ny, nx) == [r \in 1..ny |-> [c \in 1..nx |-> 2 * (c - 1)]]
InputY(ny, nx) == [r \in 1..ny |-> [c \in 1..nx |-> 2 * (r - 1)]]
InputZ(ny, nx) == [r \in 1..ny |-> [c \in 1..nx |-> Num((r - 1) * nx + c)]]

\* the spacing of the computational grid: the default, dx = dy = 1.
Spacings == {2}

Relaxations == {None} \cup {<<k, 1>> : k \in 1..MaxRelax}

\* the object constructed from the inputs c
Build(c) ==
  WindShear(InputX(c.ny, c.nx), InputY(c.ny, c.nx), InputZ(c.ny, c.nx),
            c.dx, c.dy, c.buffer_width, c.buffer_relaxation)

-----------------------------------------------------------------------------
(* The solver: construction, then any sequence of invocations, the fields  *)
(* read with get_shear                                                     *)

Init ==
  \E ny \in 2..MaxN, nx \in 2..MaxN, d \in Spacings,
     bw \in BufferWidths, br \in Relaxations :
    /\ ctor = [ny |-> ny, nx |-> nx, dx |-> d, dy |-> d,
               buffer_width |-> bw, buffer_relaxation |-> br]
    /\ self = Build(ctor)
    /\ err = "none"
    /\ last = [op |-> "init", args |-> <<>>]
    /\ ret = Absent
    /\ ncalls = 0

\* shear(u0, udir)
Call(u0, udir) ==
  LET r == call(self, u0, udir)
  IN /\ self' = r.self
     /\ err' = r.err
     /\ last' = [op |-> "call", args |-> <<u0, udir>>]
     /\ ret' = Absent
     /\ ncalls' = IF ncalls = 0 THEN 1 ELSE 2
     /\ UNCHANGED ctor

\* shear.populate_computational_grid(alpha)
Populate(alpha) ==
  LET r == populate_computational_grid(self, alpha)
  IN /\ self' = r.self
     /\ err' = r.err
     /\ last' = [op |-> "populate", args |-> <<alpha>>]
     /\ ret' = Absent
     /\ UNCHANGED <<ctor, ncalls>>

\* shear.compute_shear(u0)
ComputeShear(u0) ==
  LET r == compute_shear(self, u0)
  IN /\ self' = r.self
     /\ err' = r.err
     /\ last' = [op |-> "compute_shear", args |-> <<u0>>]
     /\ ret' = Absent
     /\ UNCHANGED <<ctor, ncalls>>

\* shear.get_shear()
GetShear ==
  LET r == get_shear(self)
  IN /\ err' = r.err
     /\ ret' = r.ret
     /\ last' = [op |-> "get_shear", args |-> <<>>]
     /\ UNCHANGED <<self, ctor, ncalls>>

Next ==
  \/ \E u0 \in Speeds, udir \in Directions : Call(u0, udir)
  \/ GetShear

Spec == Init /\ [][Next]_vars

-----------------------------------------------------------------------------
(* The methods of a constructed solver, called one by one *)

NextMethods ==
  \/ \E alpha \in Directions : Populate(alpha)
  \/ \E u0 \in Speeds : ComputeShear(u0)
  \/ GetShear

SpecMethods == Init /\ [][NextMethods]_vars

-----------------------------------------------------------------------------
(* get_sigmoid on a constructed solver *)

\* shear.get_sigmoid(d) for a distance of d half units
GetSigmoid(d) ==
  LET r == get_sigmoid(self, d * Res)
  IN /\ err' = r.err
     /\ ret' = r.ret
     /\ last' = [op |-> "get_sigmoid", args |-> <<d>>]
     /\ UNCHANGED <<self, ctor, ncalls>>

NextSigmoid == \E d \in 0..MaxDist : GetSigmoid(d)

SpecSigmoid == Init /\ [][NextSigmoid]_vars

-----------------------------------------------------------------------------
(* The static methods, called on the class: the arguments of one call are  *)
(* drawn, then the call is made.                                           *)

Points == (-MaxPoint)..MaxPoint
Coords == (-MaxCoord)..MaxCoord

\* the array of shape (ny, nx) whose cell (r, c) holds <<r, c>>
CellArray(ny, nx) == [r \in 1..ny |-> [c \in 1..nx |-> <<r, c>>]]

\* rotate is handed arrays of shape (1, 2)
RotateArgs ==
  { << <<<<x1, x2>>>>, <<<<y1, y2>>>>, alpha, <<ox, oy>> >> :
      x1 \in Points, y1 \in Points, x2 \in Points, y2 \in Points,
      ox \in Points, oy \in Points, alpha \in Directions }

BordersArgs == { <<CellArray(ny, nx)>> : ny \in 2..MaxBorderN, nx \in 2..MaxBorderN }

ExactGridArgs ==
  { a \in Coords \X Coords \X Coords \X Coords \X (1..MaxStep) \X (1..MaxStep) :
      a[1] < a[2] /\ a[3] < a[4] }

InitStatic ==
  /\ self = Absent
  /\ ctor = Absent
  /\ err = "none"
  /\ ret = Absent
  /\ ncalls = 0
  /\ \/ \E a \in RotateArgs : last = [op |-> "args", fn |-> "rotate", args |-> a]
     \/ \E a \in BordersArgs : last = [op |-> "args", fn |-> "get_borders", args |-> a]
     \/ \E a \in ExactGridArgs : last = [op |-> "args", fn |-> "get_exact_grid", args |-> a]

\* WindShear.rotate(x, y, alpha, origin)
RotateCall ==
  /\ last.op = "args" /\ last.fn = "rotate"
  /\ last' = [last EXCEPT !.op = "rotate"]
  /\ ret' = rotate(last.args[1], last.args[2], last.args[3], last.args[4])
  /\ UNCHANGED <<self, ctor, err, ncalls>>

\* WindShear.get_borders(x)
GetBordersCall ==
  /\ last.op = "args" /\ last.fn = "get_borders"
  /\ last' = [last EXCEPT !.op = "get_borders"]
  /\ ret' = get_borders(last.args[1])
  /\ UNCHANGED <<self, ctor, err, ncalls>>

\* WindShear.get_exact_grid(xmin, xmax, ymin, ymax, dx, dy)
GetExactGridCall ==
  /\ last.op = "args" /\ last.fn = "get_exact_grid"
  /\ last' = [last EXCEPT !.op = "get_exact_grid"]
  /\ ret' = get_exact_grid(last.args[1], last.args[2], last.args[3],
                           last.args[4], last.args[5], last.args[6])
  /\ UNCHANGED <<self, ctor, err, ncalls>>

NextStatic == RotateCall \/ GetBordersCall \/ GetExactGridCall

SpecStatic == InitStatic /\ [][NextStatic]_vars

-----------------------------------------------------------------------------
(* Properties *)

Populated == last.op \in {"populate", "call"}

\* the elevation interpolated onto the working coordinates, before any fill
Interpolated ==
  interpolate(self.igrid.x, self.igrid.y, self.igrid.z, self.cgrid.x, self.cgrid.y)

\* the cells of the outer ring of an array of shape (ny, nx)
Ring(ny, nx) == {rc \in (1..ny) \X (1..nx) : rc[1] \in {1, ny} \/ rc[2] \in {1, nx}}

\* the outer ring in order: top row left to right, right column top to bottom
\* without corners, bottom row right to left, left column bottom to top
\* without corners (rows ny-1 down to 2, counted from 1), the first cell again
RingSequence(ny, nx) ==
  [c \in 1..nx |-> <<1, c>>]
  \o [i \in 1..(ny - 2) |-> <<i + 1, nx>>]
  \o [c \in 1..nx |-> <<ny, nx + 1 - c>>]
  \o [i \in 1..(ny - 2) |-> <<ny - i, 1>>]
  \o << <<1, 1>> >>

\* the largest k with k * k <= n, for 0 <= lo * lo <= n < hi * hi
RECURSIVE IsqrtIn(_, _, _)
IsqrtIn(n, lo, hi) ==
  IF hi - lo <= 1 THEN lo
  ELSE LET mid == (lo + hi) \div 2
       IN IF mid * mid <= n THEN IsqrtIn(n, mid, hi) ELSE IsqrtIn(n, lo, mid)

Isqrt(n) == IsqrtIn(n, 0, n + 1)

\* the squared distance of border cell b of the input grid from cell rc of
\* the computational grid
Dist2(b, rc) ==
  (At(self.igrid.x, b) - At(self.cgrid.x, rc)) * (At(self.igrid.x, b) - At(self.cgrid.x, rc))
  + (At(self.igrid.y, b) - At(self.cgrid.y, rc)) * (At(self.igrid.y, b) - At(self.cgrid.y, rc))

\* a quarter turn counter-clockwise, k times
RECURSIVE Ccw(_, _)
Ccw(p, k) == IF k = 0 THEN p ELSE Ccw(<<-p[2], p[1]>>, k - 1)

\* origin + R(alpha)(p - origin) for the counter-clockwise rotation matrix R
CcwImage(p, alpha, o) ==
  LET q == Ccw(<<p[1] - o[1], p[2] - o[2]>>, (alpha \div 90) % 4)
  IN <<q[1] + o[1], q[2] + o[2]>>

(* C1: compute_shear(0) on any held elevation sets dtaux and dtauy to      *)
(* all-zero arrays of the shape of z and returns, the spectral formula not *)
(* being evaluated.                                                        *)
C1_ZeroSpeed ==
  (last.op = "compute_shear" /\ last.args[1] = 0 /\ self.cgrid.z # Absent) =>
    /\ err = "none"
    /\ Shape(self.cgrid.dtaux) = Shape(self.cgrid.z)
    /\ Shape(self.cgrid.dtauy) = Shape(self.cgrid.z)
    /\ \A rc \in Cells(self.cgrid.z) :
         At(self.cgrid.dtaux, rc) = Num(0) /\ At(self.cgrid.dtauy, rc) = Num(0)

C1_Witness ==
  /\ last.op = "compute_shear" /\ last.args[1] = 0
  /\ self.cgrid.z # Absent
  /\ \E rc \in Cells(self.cgrid.z) : IsNan(At(self.cgrid.z, rc))
  /\ \E rc \in Cells(self.cgrid.z) : ~IsNan(At(self.cgrid.z, rc))
  /\ self.cgrid.x # self.cgrid.xi
  /\ \A rc \in Cells(self.cgrid.z) : At(self.cgrid.dtaux, rc) = Num(0)

C3_Claim ==
  last.op = "rotate" =>
    LET x == last.args[1]
        y == last.args[2]
    IN /\ Shape(ret[1]) = Shape(x) /\ Shape(ret[2]) = Shape(y)
       /\ \A rc \in Cells(x) :
            <<At(ret[1], rc), At(ret[2], rc)>>
              = CcwImage(<<At(x, rc), At(y, rc)>>, last.args[3], last.args[4])

PositiveRelaxation == self.buffer_relaxation[1] > 0 /\ self.buffer_relaxation[2] > 0

(* C4, as claimed: for every buffer_width and every buffer_relaxation > 0  *)
(* the sigmoid factor at distance 0 equals 1.0.                            *)
C4_Claim ==
  (last.op = "get_sigmoid" /\ last.args[1] = 0 /\ PositiveRelaxation) =>
    ret = Fix(Scale)

(* C4, amended: at distance 0 the factor is 1 / (1 + exp(-w / r)) for      *)
(* width w and relaxation r > 0: 0.982 with the default relaxation w / 4,  *)
(* 0.5 for w = 0, above 0.5 for w > 0, below 0.5 for w < 0, and at most    *)
(* 0.982 whenever w <= 4 r.                                                *)
C4_SigmoidAtBorder ==
  (last.op = "get_sigmoid" /\ last.args[1] = 0 /\ PositiveRelaxation) =>
    LET w == self.buffer_width
        r == self.buffer_relaxation
    IN /\ err = "none"
       /\ ret[1] = "fix"
       /\ ctor.buffer_relaxation = None => ret[2] \in 9818..9822
       /\ w = 0 => ret[2] = Scale \div 2
       /\ w > 0 => ret[2] > Scale \div 2 /\ ret[2] <= Scale
       /\ w < 0 => ret[2] < Scale \div 2 /\ ret[2] >= 0
       /\ w * r[2] <= 4 * r[1] => ret[2] <= 9822

C4_Witness ==
  /\ last.op = "get_sigmoid" /\ last.args[1] = 0
  /\ ctor.buffer_relaxation = None /\ self.buffer_width > 0
  /\ ret[2] > 9800 /\ ret[2] < Scale

(* C5: get_borders returns the outer ring as one closed sequence: top row  *)
(* left to right, right column downwards without corners, bottom row right *)
(* to left, left column upwards without corners, the first cell again;     *)
(* every ring cell once before the closing element, no interior cell.      *)
C5_Claim ==
  last.op = "get_borders" =>
    LET sh == Shape(last.args[1])
        n  == Len(ret) - 1
    IN /\ ret = RingSequence(sh[1], sh[2])
       /\ ret[n + 1] = ret[1]
       /\ \A b \in Ring(sh[1], sh[2]) : Cardinality({i \in 1..n : ret[i] = b}) = 1
       /\ \A i \in 1..n : ret[i] \in Ring(sh[1], sh[2])

(* C6: after populate_computational_grid every cell whose interpolated     *)
(* elevation was undefined holds elevation(b) * get_sigmoid(d) for a       *)
(* nearest border point b at distance d, every other cell keeps its        *)
(* interpolated value, and no undefined elevation remains.                 *)
C6_Claim ==
  Populated =>
    \A rc \in Cells(self.cgrid.z) :
      IF IsNan(At(Interpolated, rc))
      THEN /\ ~IsNan(At(self.cgrid.z, rc))
           /\ \E b \in Ring(Len(self.igrid.z), Len(self.igrid.z[1])) :
                /\ \A o \in Ring(Len(self.igrid.z), Len(self.igrid.z[1])) :
                     Dist2(b, rc) <= Dist2(o, rc)
                /\ At(self.cgrid.z, rc)
                     = Fix(At(self.igrid.z, b)[2]
                           * get_sigmoid(self, Isqrt(Dist2(b, rc) * Res * Res)).ret[2])
      ELSE At(self.cgrid.z, rc) = At(Interpolated, rc)

(* C7: when the interpolation leaves no undefined cell,                    *)
(* populate_computational_grid completes without raising an error and the  *)
(* elevation is exactly the interpolated elevation.                        *)
C7_Claim ==
  (Populated /\ \A rc \in Cells(self.cgrid.z) : ~IsNan(At(Interpolated, rc))) =>
    /\ err = "none"
    /\ self.cgrid.z = Interpolated

\* the nodes along one axis, in order, are the multiples of the spacing from
\* the last one at or below lo to the last one below hi
AxisStopsShort(nodes, lo, hi, step) ==
  /\ Len(nodes) >= 1
  /\ \A i \in 1..Len(nodes) : nodes[i] % step = 0
  /\ \A i \in 1..(Len(nodes) - 1) : nodes[i + 1] = nodes[i] + step
  /\ nodes[1] <= lo /\ lo < nodes[1] + step
  /\ nodes[Len(nodes)] < hi /\ hi <= nodes[Len(nodes)] + step

\* the nodes along one axis are multiples of the spacing and span lo..hi
AxisSpans(nodes, lo, hi, step) ==
  /\ Len(nodes) >= 1
  /\ \A i \in 1..Len(nodes) : nodes[i] % step = 0
  /\ nodes[1] <= lo /\ lo < nodes[1] + step
  /\ nodes[Len(nodes)] >= hi

\* the x nodes and the y nodes of a grid made by np.meshgrid
XNodes(g) == g[1][1]
YNodes(g) == [r \in 1..Len(g[2]) |-> g[2][r][1]]

(* C8, as claimed: the grid of get_exact_grid has nodes at multiples of    *)
(* the spacing only, its smallest node is floor(min / d) * d <= min and    *)
(* its largest node is >= max, in x and in y.                              *)
C8_Claim ==
  last.op = "get_exact_grid" =>
    /\ AxisSpans(XNodes(ret), last.args[1], last.args[2], last.args[5])
    /\ AxisSpans(YNodes(ret), last.args[3], last.args[4], last.args[6])

(* C8, amended: the nodes are the multiples of the spacing from            *)
(* floor(min / d) * d <= min up to ceil(max / d) * d - d, the largest      *)
(* multiple strictly below max: the grid is rounded outward on the low     *)
(* side only and stops short of max by at most one spacing.                *)
C8_StopsShort ==
  last.op = "get_exact_grid" =>
    /\ AxisStopsShort(XNodes(ret), last.args[1], last.args[2], last.args[5])
    /\ AxisStopsShort(YNodes(ret), last.args[3], last.args[4], last.args[6])
    /\ Shape(ret[1]) = <<Len(YNodes(ret)), Len(XNodes(ret))>>
    /\ Shape(ret[2]) = Shape(ret[1])
    /\ \A rc \in Cells(ret[1]) :
         At(ret[1], rc) = XNodes(ret)[rc[2]] /\ At(ret[2], rc) = YNodes(ret)[rc[1]]

C8_Witness ==
  /\ last.op = "get_exact_grid"
  /\ last.args = <<-3, 2, -1, 3, 2, 3>>
  /\ XNodes(ret) = <<-4, -2, 0>>
  /\ YNodes(ret) = <<-3, 0>>

=============================================================================
